---- MODULE Spec2Model ----
(***************************************************************************)
(* Model of the LEMMO core configuration loader, application manager and   *)
(* GraphQL schema composer (core/app_manager.py, core/schema.py,           *)
(* core/app_utils.py, core/__init__.py).                                   *)
(***************************************************************************)
EXTENDS Integers, Sequences, FiniteSets, TLC

(***************************************************************************)
(* Bounds                                                                  *)
(***************************************************************************)
\* Longest 'apps' list a hand-written config.yml has in the model.
MaxApps == 2

(***************************************************************************)
(* Python values.  Every value is a record [t, v]: t is the Python type    *)
(* and v the payload.  A dict is its sequence of <<key, value>> items in   *)
(* insertion order.                                                        *)
(***************************************************************************)
None == [t |-> "none", v |-> <<>>]
PyStr(s) == [t |-> "str", v |-> s]
PyInt(s) == [t |-> "int", v |-> s]
PyBool(s) == [t |-> "bool", v |-> s]
PyList(items) == [t |-> "list", v |-> items]
PyDict(items) == [t |-> "dict", v |-> items]

\* isinstance(x, dict) / isinstance(x, list) / isinstance(x, str)
IsDict(x) == x.t = "dict"
IsList(x) == x.t = "list"
IsStr(x) == x.t = "str"

\* key in d
HasKey(d, k) == \E i \in 1..Len(d.v) : d.v[i][1] = k

\* d[key]
DictItem(d, k) == d.v[CHOOSE i \in 1..Len(d.v) : d.v[i][1] = k][2]

\* d.get(key, default)
DictGet(d, k, default) == IF HasKey(d, k) THEN DictItem(d, k) ELSE default

\* bool(x): the truth value Python gives x
Truthy(x) ==
    CASE x.t = "none" -> FALSE
      [] x.t = "str" -> x.v # ""
      [] x.t = "int" -> x.v # "0"
      [] x.t = "bool" -> x.v = "true"
      [] x.t = "list" -> Len(x.v) > 0
      [] x.t = "dict" -> Len(x.v) > 0
      [] OTHER -> TRUE

(***************************************************************************)
(* YAML text.  A document is a tree of nodes: a scalar carries its text    *)
(* and whether it is quoted, a sequence its items, a mapping its           *)
(* <<key, node>> entries in file order.                                    *)
(***************************************************************************)
Scalar(text, quoted) == [t |-> "scalar", v |-> <<text, quoted>>]
SeqNode(items) == [t |-> "seq", v |-> items]
MapNode(items) == [t |-> "map", v |-> items]
\* a file whose text is not YAML
Garbage == [t |-> "garbage", v |-> <<>>]
\* a file with no document in it
EmptyDoc == [t |-> "empty", v |-> <<>>]
\* no file at config_path
Absent == [t |-> "absent", v |-> <<>>]

\* plain scalars the YAML resolver does not read as strings
NullTexts == {"null", "~", ""}
IntTexts == {"0", "123"}
BoolTexts == {"true", "false"}

\* yaml.safe_load: the Python value a document constructs
RECURSIVE safe_load(_)
safe_load(n) ==
    CASE n.t = "empty" -> None
      [] n.t = "scalar" ->
            IF n.v[2] THEN PyStr(n.v[1])
            ELSE IF n.v[1] \in NullTexts THEN None
            ELSE IF n.v[1] \in IntTexts THEN PyInt(n.v[1])
            ELSE IF n.v[1] \in BoolTexts THEN PyBool(n.v[1])
            ELSE PyStr(n.v[1])
      [] n.t = "seq" -> PyList([i \in 1..Len(n.v) |-> safe_load(n.v[i])])
      [] n.t = "map" ->
            PyDict([i \in 1..Len(n.v) |-> <<n.v[i][1], safe_load(n.v[i][2])>>])

\* yaml.safe_dump(data, default_flow_style=False, sort_keys=False)
RECURSIVE safe_dump(_)
safe_dump(x) ==
    CASE x.t = "none" -> Scalar("null", FALSE)
      [] x.t = "str" ->
            Scalar(x.v, x.v \in NullTexts \cup IntTexts \cup BoolTexts)
      [] x.t = "int" -> Scalar(x.v, FALSE)
      [] x.t = "bool" -> Scalar(x.v, FALSE)
      [] x.t = "list" -> SeqNode([i \in 1..Len(x.v) |-> safe_dump(x.v[i])])
      [] x.t = "dict" ->
            MapNode([i \in 1..Len(x.v) |-> <<x.v[i][1], safe_dump(x.v[i][2])>>])

(***************************************************************************)
(* core/__init__.py                                                        *)
(***************************************************************************)
App(name, description, module, url_prefix) ==
    PyDict(<< <<"name", PyStr(name)>>,
            <<"description", PyStr(description)>>,
            <<"module", PyStr(module)>>,
            <<"url_prefix", PyStr(url_prefix)>> >>)

DEFAULT_APPS ==
    << App("Authentication Module",
           "Handles user authentication and authorization.",
           "lemmo_apps.authentication", "authentications"),
       App("Inventory Module", "Handles inventory management.",
           "lemmo_apps.inventory", "inventory"),
       App("Location Module", "Handles location management & Facilities.",
           "lemmo_apps.location", "locations"),
       App("Requisition Module", "Handles requisition management.",
           "lemmo_apps.requisition", "requisitions"),
       App("Stock Module", "Handles stock management.",
           "lemmo_apps.stock", "stocks"),
       App("Dashboard Module", "Handles dashboard management.",
           "lemmo_apps.dashboard", "dashboards"),
       App("FHIR API Module", "Handles FHIR data management.",
           "lemmo_apps.fhir_api", "fhir"),
       App("Integration Module", "Handles integration with external systems.",
           "lemmo_apps.integration", "integrations"),
       App("Logistics Module",
           "Handles logistics and transportation management.",
           "lemmo_apps.logistics", "logistics"),
       App("Supplier Module", "Handles supplier management and relationships.",
           "lemmo_apps.supplier", "suppliers"),
       App("Order Module", "Handles order management and processing.",
           "lemmo_apps.order", "orders") >>

LEMMO_DEFAULT_CONFIG_DATA == PyDict(<< <<"apps", PyList(DEFAULT_APPS)>> >>)

(***************************************************************************)
(* core/app_utils.py: the response envelope                                *)
(***************************************************************************)
\* x or default
OrDefault(x, default) == IF Truthy(x) THEN x ELSE default

\* MessageType enum values; NoType is message_type=None
NoType == "none"

lemmo_message(success, message, error_details, data, errors, message_type) ==
    [success |-> success,
     message |-> message,
     error_details |-> OrDefault(error_details, PyList(<<>>)),
     data |-> OrDefault(data, PyDict(<<>>)),
     errors |-> OrDefault(errors, PyList(<<>>)),
     message_type |-> IF message_type = NoType
                      THEN (IF success THEN "success" ELSE "error")
                      ELSE message_type]

success_message(message, data) ==
    lemmo_message(TRUE, message, None, data, None, "success")

error_message(message, error_details, errors) ==
    lemmo_message(FALSE, message, OrDefault(error_details, PyList(<<>>)),
                  None, OrDefault(errors, PyList(<<>>)), "error")

\* warning_message without its message_type argument
warning_message_untyped(message, data) ==
    lemmo_message(TRUE, message, None, data, None, NoType)

warning_message(message, data) ==
    lemmo_message(TRUE, message, None, data, None, "warning")

info_message(message, data) ==
    lemmo_message(TRUE, message, None, data, None, "info")

(***************************************************************************)
(* core/app_manager.py: configuration                                      *)
(***************************************************************************)
\* the path get_config_file_path resolves to
config_path == "config.yml"

\* required_fields with description made mandatory
required_fields_all == <<"name", "description", "module", "url_prefix">>

required_fields == <<"name", "module", "url_prefix">>

\* errors the inner loop of validate_config_data appends for app i, from
\* required field number f on
RECURSIVE FieldErrors(_, _, _)
FieldErrors(i, app, f) ==
    IF f > Len(required_fields) THEN <<>>
    ELSE LET field == required_fields[f]
             here ==
                IF ~HasKey(app, field)
                THEN << "App at index " \o ToString(i)
                        \o " missing required field: " \o field >>
                ELSE IF ~IsStr(DictItem(app, field))
                THEN << "App at index " \o ToString(i) \o " field '"
                        \o field \o "' must be a string" >>
                ELSE <<>>
         IN here \o FieldErrors(i, app, f + 1)

\* errors the outer loop of validate_config_data appends from apps[k] on
\* (enumerate counts from 0, sequences from 1)
RECURSIVE AppErrors(_, _)
AppErrors(apps, k) ==
    IF k > Len(apps) THEN <<>>
    ELSE LET app == apps[k]
             here ==
                IF ~IsDict(app)
                THEN << "App at index " \o ToString(k - 1)
                        \o " must be a dictionary" >>
                ELSE FieldErrors(k - 1, app, 1)
         IN here \o AppErrors(apps, k + 1)

\* AppManager.validate_config_data: <<is_valid, errors>>
validate_config_data(config_data) ==
    IF ~IsDict(config_data)
    THEN <<FALSE, <<"Configuration must be a dictionary">> >>
    ELSE IF ~HasKey(config_data, "apps")
    THEN <<FALSE, <<"Configuration must contain 'apps' key">> >>
    ELSE IF ~IsList(DictItem(config_data, "apps"))
    THEN <<FALSE, <<"'apps' must be a list">> >>
    ELSE LET errors == AppErrors(DictItem(config_data, "apps").v, 1)
         IN <<Len(errors) = 0, errors>>


\* generate_config that does not look at overwrite
generate_config_always(file, writable, overwrite) ==
    IF writable
    THEN [file |-> safe_dump(LEMMO_DEFAULT_CONFIG_DATA),
          ret |-> success_message(
                    "Generated config file at " \o config_path,
                    PyDict(<< <<"config_path", PyStr(config_path)>> >>))]
    ELSE [file |-> file,
          ret |-> error_message("Failed to generate config file",
                                PyList(<<PyStr("Permission denied")>>),
                                None)]

\* generate_config that dumps the list of apps instead of the configuration
generate_config_apps_only(file, writable, overwrite) ==
    IF file # Absent /\ ~overwrite
    THEN [file |-> file,
          ret |-> error_message(
                    "Config file already exists at " \o config_path,
                    PyList(<<PyStr("Use overwrite=True to regenerate")>>),
                    None)]
    ELSE IF writable
    THEN [file |-> safe_dump(PyList(DEFAULT_APPS)),
          ret |-> success_message(
                    "Generated config file at " \o config_path,
                    PyDict(<< <<"config_path", PyStr(config_path)>> >>))]
    ELSE [file |-> file,
          ret |-> error_message("Failed to generate config file",
                                PyList(<<PyStr("Permission denied")>>),
                                None)]

\* AppManager.generate_config on a file system where config.yml holds
\* 'file' and the directory is writable or not: the file afterwards and the
\* envelope returned
generate_config(file, writable, overwrite) ==
    IF file # Absent /\ ~overwrite
    THEN [file |-> file,
          ret |-> error_message(
                    "Config file already exists at " \o config_path,
                    PyList(<<PyStr("Use overwrite=True to regenerate")>>),
                    None)]
    ELSE IF writable
    THEN [file |-> safe_dump(LEMMO_DEFAULT_CONFIG_DATA),
          ret |-> success_message(
                    "Generated config file at " \o config_path,
                    PyDict(<< <<"config_path", PyStr(config_path)>> >>))]
    ELSE [file |-> file,
          ret |-> error_message("Failed to generate config file",
                                PyList(<<PyStr("Permission denied")>>),
                                None)]

\* get_config_data_from_config_file that gives up on a missing file
get_config_data_missing_none(file, writable) ==
    IF file = Absent \/ file = Garbage
    THEN [file |-> file, ret |-> None]
    ELSE LET config_data == safe_load(file)
         IN [file |-> file,
             ret |-> IF validate_config_data(config_data)[1]
                     THEN config_data
                     ELSE None]

\* get_config_data_from_config_file that returns what it parsed without
\* validating it
get_config_data_unvalidated(file, writable) ==
    IF file = Absent
    THEN LET g == generate_config(file, writable, TRUE)
         IN [file |-> g.file,
             ret |-> IF g.file = Absent \/ g.file = Garbage
                     THEN None
                     ELSE safe_load(g.file)]
    ELSE IF file = Garbage
    THEN [file |-> file, ret |-> None]
    ELSE [file |-> file, ret |-> safe_load(file)]

\* AppManager.get_config_data_from_config_file: the file afterwards and the
\* configuration (or None) returned
get_config_data_from_config_file(file, writable) ==
    IF file = Absent
    THEN LET g == generate_config(file, writable, TRUE)
         IN [file |-> g.file,
             ret |-> IF g.file = Absent \/ g.file = Garbage
                     THEN None
                     ELSE safe_load(g.file)]
    ELSE IF file = Garbage
    THEN [file |-> file, ret |-> None]
    ELSE LET config_data == safe_load(file)
         IN [file |-> file,
             ret |-> IF validate_config_data(config_data)[1]
                     THEN config_data
                     ELSE None]

(***************************************************************************)
(* The Python modules that can be imported.  A module that is not          *)
(* installed raises ImportError; an installed one imports or raises, and   *)
(* has a schema and a urls submodule that import or raise in turn.  A      *)
(* class is its <<field name, kind>> items in _meta.fields order; kinds:   *)
(*   typed        a graphene field (has 'type')                            *)
(*   dict         a raw mapping                                            *)
(*   untyped      an object with neither 'type' nor '_type'                *)
(*   raising      a field whose 'type' property raises (lazy type that     *)
(*                cannot be imported)                                      *)
(*   unbuildable  a field with a type graphene.Schema rejects              *)
(***************************************************************************)
NoClass == [defined |-> FALSE, module |-> "", has_fields |-> FALSE,
            fields |-> <<>>]
Class(module, fields) ==
    [defined |-> TRUE, module |-> module, has_fields |-> TRUE,
     fields |-> fields]
\* a class that is not a graphene ObjectType (no _meta.fields)
PlainClass(module) ==
    [defined |-> TRUE, module |-> module, has_fields |-> FALSE,
     fields |-> <<>>]

NoSubmodule == [import |-> "ImportError", Query |-> NoClass,
                Mutation |-> NoClass, urlpatterns |-> FALSE]
BrokenSubmodule == [import |-> "Exception", Query |-> NoClass,
                    Mutation |-> NoClass, urlpatterns |-> FALSE]
SchemaModule(query, mutation) ==
    [import |-> "ok", Query |-> query, Mutation |-> mutation,
     urlpatterns |-> FALSE]
UrlsModule(urlpatterns) ==
    [import |-> "ok", Query |-> NoClass, Mutation |-> NoClass,
     urlpatterns |-> urlpatterns]

Module(import, schema, urls) ==
    [import |-> import, schema |-> schema, urls |-> urls]

Installed ==
    ("lemmo_apps.authentication" :>
        Module("ok",
               SchemaModule(
                 Class("lemmo_apps.authentication",
                       << <<"users", "typed">>, <<"me", "typed">> >>),
                 Class("lemmo_apps.authentication",
                       << <<"login", "typed">> >>)),
               UrlsModule(TRUE)))
 @@ ("lemmo_apps.inventory" :>
        Module("ok",
               SchemaModule(
                 Class("lemmo_apps.inventory",
                       << <<"items", "typed">>, <<"raw", "dict">> >>),
                 Class("lemmo_apps.inventory",
                       << <<"add_item", "typed">> >>)),
               UrlsModule(FALSE)))
 @@ ("lemmo_apps.supplier" :>
        Module("ok",
               SchemaModule(
                 Class("lemmo_apps.supplier",
                       << <<"suppliers", "typed">> >>),
                 Class("lemmo_apps.supplier",
                       << <<"meta", "dict">> >>)),
               BrokenSubmodule))
 @@ ("django.contrib.auth" :>
        Module("ok", NoSubmodule, UrlsModule(TRUE)))
 @@ ("lemmo_apps.stock" :>
        Module("Exception", NoSubmodule, NoSubmodule))
 @@ ("lemmo_apps.location" :>
        Module("ok", BrokenSubmodule, NoSubmodule))
 @@ ("lemmo_apps.order" :>
        Module("ok",
               SchemaModule(
                 Class("lemmo_apps.order",
                       << <<"users", "typed">>, <<"legacy", "untyped">>,
                          <<"orders", "typed">> >>),
                 Class("lemmo_apps.order",
                       << <<"cancel", "typed">>, <<"place", "raising">>,
                          <<"refund", "typed">> >>)),
               UrlsModule(TRUE)))
 @@ ("lemmo_apps.dashboard" :>
        Module("ok",
               SchemaModule(PlainClass("lemmo_apps.dashboard"), NoClass),
               NoSubmodule))
 @@ ("lemmo_apps.fhir_api" :>
        Module("ok",
               SchemaModule(
                 Class("lemmo_apps.fhir_api",
                       << <<"hello", "typed">>,
                          <<"patient", "unbuildable">> >>),
                 NoClass),
               UrlsModule(TRUE)))

\* importlib.import_module(module) for sub = "", and
\* importlib.import_module(f"{module}.{sub}") otherwise: "ok" or the kind of
\* exception raised.  The empty name is a ValueError (a TypeError with a
\* submodule); importing a submodule imports its package first.
import_module(module, sub) ==
    IF module = "" THEN "Exception"
    ELSE IF module \notin DOMAIN Installed THEN "ImportError"
    ELSE IF Installed[module].import # "ok" THEN Installed[module].import
    ELSE IF sub = "" THEN "ok"
    ELSE Installed[module][sub].import


(***************************************************************************)
(* core/app_manager.py: loading the configured apps                        *)
(***************************************************************************)
\* an exception that leaves the function
Raised == [t |-> "raised", v |-> <<>>]

\* get_apps_loop with a break where the loop should go on: the first app
\* that does not load ends the loading
RECURSIVE get_apps_loop_break(_, _, _)
get_apps_loop_break(apps, k, loaded_modules) ==
    IF k > Len(apps) THEN PyList(loaded_modules)
    ELSE LET app == apps[k]
         IN IF ~IsDict(app) THEN Raised
            ELSE LET module_name == DictGet(app, "module", None)
                 IN IF Truthy(module_name)
                       /\ IsStr(module_name)
                       /\ import_module(module_name.v, "") = "ok"
                    THEN get_apps_loop_break(apps, k + 1,
                                            Append(loaded_modules,
                                                   module_name))
                    ELSE PyList(loaded_modules)

\* the for loop of get_apps from apps[k] on, loaded_modules so far
RECURSIVE get_apps_loop(_, _, _)
get_apps_loop(apps, k, loaded_modules) ==
    IF k > Len(apps) THEN PyList(loaded_modules)
    ELSE LET app == apps[k]
         IN IF ~IsDict(app) THEN Raised
            ELSE LET module_name == DictGet(app, "module", None)
                 IN IF Truthy(module_name)
                       /\ IsStr(module_name)
                       /\ import_module(module_name.v, "") = "ok"
                    THEN get_apps_loop(apps, k + 1,
                                       Append(loaded_modules, module_name))
                    ELSE get_apps_loop(apps, k + 1, loaded_modules)

\* AppManager.get_apps
get_apps(file, writable) ==
    LET c == get_config_data_from_config_file(file, writable)
        config_data == c.ret
    IN [file |-> c.file,
        ret |-> IF ~IsDict(config_data) THEN PyList(<<>>)
                ELSE LET apps == DictGet(config_data, "apps", PyList(<<>>))
                     IN IF IsList(apps) THEN get_apps_loop(apps.v, 1, <<>>)
                        ELSE Raised]

\* ClassAccepted without the scan for dict fields
ClassAccepted_unchecked(class) ==
    /\ class.defined
    /\ class.has_fields

\* the validation get_app_schema applies to a Query or Mutation class:
\* TRUE when the class is appended to the result
ClassAccepted(class) ==
    /\ class.defined
    /\ class.has_fields
    /\ \A i \in 1..Len(class.fields) : class.fields[i][2] # "dict"

\* the loop with one validation for both classes: a Mutation is collected
\* only when the Query of its module was
RECURSIVE get_app_schema_loop_joint(_, _, _, _)
get_app_schema_loop_joint(apps, k, schema_queries, schema_mutations) ==
    IF k > Len(apps)
    THEN [queries |-> schema_queries, mutations |-> schema_mutations]
    ELSE LET module_path == DictGet(apps[k], "module", None)
             usable == /\ Truthy(module_path)
                       /\ IsStr(module_path)
                       /\ import_module(module_path.v, "schema") = "ok"
             schema_module == Installed[module_path.v].schema
         IN IF ~usable
            THEN get_app_schema_loop_joint(apps, k + 1, schema_queries,
                                           schema_mutations)
            ELSE get_app_schema_loop_joint(
                   apps, k + 1,
                   IF ClassAccepted(schema_module.Query)
                   THEN Append(schema_queries, schema_module.Query)
                   ELSE schema_queries,
                   IF /\ ClassAccepted(schema_module.Query)
                      /\ ClassAccepted(schema_module.Mutation)
                   THEN Append(schema_mutations, schema_module.Mutation)
                   ELSE schema_mutations)

\* the for loop of get_app_schema from apps[k] on
RECURSIVE get_app_schema_loop(_, _, _, _)
get_app_schema_loop(apps, k, schema_queries, schema_mutations) ==
    IF k > Len(apps)
    THEN [queries |-> schema_queries, mutations |-> schema_mutations]
    ELSE LET module_path == DictGet(apps[k], "module", None)
             usable == /\ Truthy(module_path)
                       /\ IsStr(module_path)
                       /\ import_module(module_path.v, "schema") = "ok"
             schema_module == Installed[module_path.v].schema
         IN IF ~usable
            THEN get_app_schema_loop(apps, k + 1, schema_queries,
                                     schema_mutations)
            ELSE get_app_schema_loop(
                   apps, k + 1,
                   IF ClassAccepted(schema_module.Query)
                   THEN Append(schema_queries, schema_module.Query)
                   ELSE schema_queries,
                   IF ClassAccepted(schema_module.Mutation)
                   THEN Append(schema_mutations, schema_module.Mutation)
                   ELSE schema_mutations)

\* AppManager.get_app_schema
get_app_schema(file, writable) ==
    LET c == get_config_data_from_config_file(file, writable)
        config_data == c.ret
    IN [file |-> c.file,
        ret |-> IF ~Truthy(config_data)
                THEN [queries |-> <<>>, mutations |-> <<>>]
                ELSE get_app_schema_loop(
                       DictGet(config_data, "apps", PyList(<<>>)).v, 1,
                       <<>>, <<>>)]

\* django.urls.path(route, include(module)): a URLResolver
path(route, module) ==
    [t |-> "URLResolver", v |-> <<route, module>>]

\* iter(x) succeeds
Iterable(x) == x.t \in {"list", "dict", "str"}

\* the for loop of get_app_urls from apps[k] on.  list.extend raises
\* TypeError for an argument that is not iterable; the handler around it
\* logs a warning and the loop goes on.
RECURSIVE get_app_urls_loop(_, _, _)
get_app_urls_loop(apps, k, urls) ==
    IF k > Len(apps) THEN urls
    ELSE LET app == apps[k]
             module == DictItem(app, "module").v
             url_prefix == DictGet(app, "url_prefix", PyStr("")).v
             route == path(url_prefix \o "/", module)
         IN IF /\ import_module(module, "urls") = "ok"
               /\ Installed[module].urls.urlpatterns
               /\ Iterable(route)
            THEN get_app_urls_loop(apps, k + 1, urls \o route.v)
            ELSE get_app_urls_loop(apps, k + 1, urls)

\* AppManager.get_app_urls
get_app_urls(file, writable) ==
    LET c == get_config_data_from_config_file(file, writable)
        config_data == c.ret
    IN [file |-> c.file,
        ret |-> IF ~Truthy(config_data) THEN <<>>
                ELSE get_app_urls_loop(
                       DictGet(config_data, "apps", PyList(<<>>)).v, 1,
                       <<>>)]


\* AppManager._validate_module: TRUE, FALSE, or Raised when the import
\* raises something that is not an ImportError
validate_module(module_name) ==
    CASE import_module(module_name, "") = "ok" -> PyBool("true")
      [] import_module(module_name, "") = "ImportError" -> PyBool("false")
      [] OTHER -> Raised

\* the info dictionary get_app_info builds for one app
AppInfo(app, is_loaded, has_schema, has_urls) ==
    [t |-> "info",
     v |-> [name |-> DictGet(app, "name", PyStr("Unknown")),
            description |-> DictGet(app, "description", PyStr("")),
            module |-> DictGet(app, "module", PyStr("")),
            url_prefix |-> DictGet(app, "url_prefix", PyStr("")),
            is_loaded |-> is_loaded,
            has_schema |-> has_schema,
            has_urls |-> has_urls]]

\* the for loop of get_app_info from apps[k] on.  Only ImportError is
\* handled around _validate_module and around the import of the schema
\* submodule; every exception is handled around the urls submodule.
RECURSIVE get_app_info_loop(_, _, _)
get_app_info_loop(apps, k, app_info) ==
    IF k > Len(apps) THEN PyList(app_info)
    ELSE LET app == apps[k]
             module == DictGet(app, "module", PyStr(""))
             is_loaded == validate_module(module.v)
             schema_import == import_module(module.v, "schema")
             has_schema ==
                /\ Truthy(module)
                /\ schema_import = "ok"
                /\ \/ Installed[module.v].schema.Query.defined
                   \/ Installed[module.v].schema.Mutation.defined
             has_urls ==
                /\ Truthy(module)
                /\ import_module(module.v, "urls") = "ok"
                /\ Installed[module.v].urls.urlpatterns
         IN IF is_loaded = Raised THEN Raised
            ELSE IF Truthy(module) /\ schema_import = "Exception" THEN Raised
            ELSE get_app_info_loop(
                   apps, k + 1,
                   Append(app_info,
                          AppInfo(app, is_loaded.v = "true", has_schema,
                                  has_urls)))

\* AppManager.get_app_info
get_app_info(file, writable) ==
    LET c == get_config_data_from_config_file(file, writable)
        config_data == c.ret
    IN [file |-> c.file,
        ret |-> IF ~Truthy(config_data) THEN PyList(<<>>)
                ELSE get_app_info_loop(
                       DictGet(config_data, "apps", PyList(<<>>)).v, 1,
                       <<>>)]

(***************************************************************************)
(* core/schema.py                                                          *)
(***************************************************************************)
\* a field of a composed type: the class it came from and its kind
Field(owner, kind) == [owner |-> owner, kind |-> kind]

\* key in fields, for a dict kept as <<name, field>> items
HasField(fields, name) == \E i \in 1..Len(fields) : fields[i][1] = name

\* the hardcoded hello field of create_schema
HelloField == Field("core", "typed")

\* hasattr(field, "type") or hasattr(field, "_type")
HasType(kind) == kind \in {"typed", "unbuildable"}

\* merge_fields where a field name that is already taken ends the loop over
\* the fields of the class
RECURSIVE merge_fields_break(_, _, _)
merge_fields_break(class, i, fields) ==
    IF i > Len(class.fields) THEN fields
    ELSE LET field_name == class.fields[i][1]
             kind == class.fields[i][2]
         IN IF kind = "raising" THEN fields
            ELSE IF HasType(kind) /\ HasField(fields, field_name)
            THEN fields
            ELSE IF HasType(kind)
            THEN merge_fields_break(class, i + 1,
                                    Append(fields,
                                           <<field_name,
                                             Field(class.module, kind)>>))
            ELSE merge_fields_break(class, i + 1, fields)

\* the inner loop of create_schema over class._meta.fields.items() from
\* item i on.  A field whose 'type' property raises ends the processing of
\* its class: the handler logs and continues with the next class, and the
\* fields added before stay.
RECURSIVE merge_fields(_, _, _)
merge_fields(class, i, fields) ==
    IF i > Len(class.fields) THEN fields
    ELSE LET field_name == class.fields[i][1]
             kind == class.fields[i][2]
         IN IF kind = "raising" THEN fields
            ELSE IF HasType(kind) /\ ~HasField(fields, field_name)
            THEN merge_fields(class, i + 1,
                              Append(fields,
                                     <<field_name,
                                       Field(class.module, kind)>>))
            ELSE merge_fields(class, i + 1, fields)

\* merge_classes without the handler around each class: a class whose
\* processing raises ends the merging
RECURSIVE merge_classes_abort(_, _, _)
merge_classes_abort(classes, k, fields) ==
    IF k > Len(classes) THEN fields
    ELSE IF \E i \in 1..Len(classes[k].fields) :
               classes[k].fields[i][2] = "raising"
    THEN merge_fields(classes[k], 1, fields)
    ELSE IF classes[k].has_fields
    THEN merge_classes_abort(classes, k + 1,
                             merge_fields(classes[k], 1, fields))
    ELSE merge_classes_abort(classes, k + 1, fields)

\* the outer loop of create_schema over the collected classes from k on
RECURSIVE merge_classes(_, _, _)
merge_classes(classes, k, fields) ==
    IF k > Len(classes) THEN fields
    ELSE IF classes[k].has_fields
    THEN merge_classes(classes, k + 1, merge_fields(classes[k], 1, fields))
    ELSE merge_classes(classes, k + 1, fields)

\* graphene.Schema(query=Query, mutation=Mutation) raises
SchemaRaises(query_fields, mutation_fields) ==
    \/ \E i \in 1..Len(query_fields) :
          query_fields[i][2].kind = "unbuildable"
    \/ \E i \in 1..Len(mutation_fields) :
          mutation_fields[i][2].kind = "unbuildable"

\* a graphene.Schema over the two composed types
Schema(query_fields, mutation_fields, error) ==
    [t |-> "schema",
     v |-> [query |-> query_fields, mutation |-> mutation_fields,
            error |-> error]]

\* the minimal schema of the except branch: ErrorQuery and ErrorMutation
ErrorSchema == Schema(<< <<"hello", Field("error", "typed")>> >>, <<>>, TRUE)

\* query_fields without the hello field
InitialQueryFields_empty == <<>>

\* the query_fields dict before the app classes are merged
InitialQueryFields == << <<"hello", HelloField>> >>

\* the try block of create_schema: the schema, or Raised
compose_schema(queries, mutations) ==
    LET merged == merge_classes(queries, 1, InitialQueryFields)
        query_fields == IF merged # <<>> THEN merged
                        ELSE << <<"hello", HelloField>> >>
        mutation_fields == merge_classes(mutations, 1, <<>>)
    IN IF SchemaRaises(query_fields, mutation_fields) THEN Raised
       ELSE Schema(query_fields, mutation_fields, FALSE)

\* create_schema: the file afterwards and the schema returned
create_schema(file, writable) ==
    LET s == get_app_schema(file, writable)
        composed == compose_schema(s.ret.queries, s.ret.mutations)
    IN [file |-> s.file,
        ret |-> IF composed.t = "raised" THEN ErrorSchema ELSE composed]

\* reload_schema without the global statement: the new schema is returned
\* and the module-level one stays
reload_from_local(schema, created) ==
    IF created.t = "raised"
    THEN [schema |-> schema, ret |-> schema]
    ELSE [schema |-> schema, ret |-> created]

\* the body of reload_schema given what create_schema gave (a schema, or
\* Raised): the module-level schema afterwards and the schema returned
reload_from(schema, created) ==
    IF created.t = "raised"
    THEN [schema |-> schema, ret |-> schema]
    ELSE [schema |-> created, ret |-> created]

\* reload_schema: the file and the module-level schema afterwards, the
\* schema returned, and whether the try block ran to its end
reload_schema(schema, file, writable) ==
    LET stored(c) == [file |-> c.file,
                      schema |-> reload_from(schema, c.ret).schema,
                      ret |-> reload_from(schema, c.ret).ret,
                      rebuilt |-> c.ret.t # "raised"]
    IN CHOOSE r \in {stored(c) : c \in {create_schema(file, writable)}} :
           TRUE

\* get_schema_info: the file afterwards and the dictionary returned
get_schema_info(file, writable) ==
    LET s == get_app_schema(file, writable)
        a == get_apps(s.file, writable)
    IN [file |-> a.file,
        ret |-> IF a.ret.t = "raised"
                THEN [query_count |-> 0, mutation_count |-> 0,
                      apps_loaded |-> 0, schema_valid |-> FALSE]
                ELSE [query_count |-> Len(s.ret.queries),
                      mutation_count |-> Len(s.ret.mutations),
                      apps_loaded |-> Len(a.ret.v),
                      schema_valid |-> TRUE]]

(***************************************************************************)
(* core/app_utils.py: validate_required_fields, and                        *)
(* core/gql/queries/core.py: PaginatedQuery.get_pagination_params.         *)
(***************************************************************************)
\* the test of the loop without its "is None" half
is_missing_absent_only(data, field) == ~HasKey(data, field)

\* field not in data or data[field] is None
is_missing(data, field) ==
    ~HasKey(data, field) \/ DictItem(data, field) = None

RECURSIVE validate_required_fields_loop(_, _, _, _)
validate_required_fields_loop(data, required, i, missing_fields) ==
    IF i > Len(required)
    THEN missing_fields
    ELSE validate_required_fields_loop(
             data, required, i + 1,
             IF is_missing(data, required[i])
             THEN Append(missing_fields, required[i])
             ELSE missing_fields)

\* validate_required_fields: data afterwards and the list returned
validate_required_fields(data, required) ==
    [data |-> data,
     ret |-> validate_required_fields_loop(data, required, 1, <<>>)]

\* kwargs.get(key, default)
KwargsGet(kwargs, key, default) ==
    IF key \in DOMAIN kwargs THEN kwargs[key] ELSE default

\* get_pagination_params without the upper limit on page_size
get_pagination_params_unlimited(kwargs) ==
    LET page0 == KwargsGet(kwargs, "page", 1)
        page_size0 == KwargsGet(kwargs, "page_size", 10)
        page == IF page0 < 1 THEN 1 ELSE page0
        page_size == IF page_size0 < 1 THEN 10 ELSE page_size0
    IN [page |-> page, page_size |-> page_size,
        offset |-> (page - 1) * page_size]

get_pagination_params(kwargs) ==
    LET page0 == KwargsGet(kwargs, "page", 1)
        page_size0 == KwargsGet(kwargs, "page_size", 10)
        page == IF page0 < 1 THEN 1 ELSE page0
        page_size1 == IF page_size0 < 1 THEN 10 ELSE page_size0
        page_size == IF page_size1 > 100 THEN 100 ELSE page_size1
    IN [page |-> page, page_size |-> page_size,
        offset |-> (page - 1) * page_size]

\* create_paginated_response with a division that rounds down
create_paginated_response_floor(items, total_count, page, page_size) ==
    LET total_pages == total_count \div page_size
    IN [items |-> items,
        pagination |-> [page |-> page, page_size |-> page_size,
                        total_count |-> total_count,
                        total_pages |-> total_pages,
                        has_next |-> page < total_pages,
                        has_previous |-> page > 1]]

\* Python's // on the integers used here is \div: both round down
create_paginated_response(items, total_count, page, page_size) ==
    LET total_pages == (total_count + page_size - 1) \div page_size
    IN [items |-> items,
        pagination |-> [page |-> page, page_size |-> page_size,
                        total_count |-> total_count,
                        total_pages |-> total_pages,
                        has_next |-> page < total_pages,
                        has_previous |-> page > 1]]

(***************************************************************************)
(* core/gql: the authenticated base classes.  A call is given by the       *)
(* request context, by what the subclass's check_permissions and           *)
(* perform_mutation / perform_resolve do, and by the output fields the     *)
(* mutation class declares.                                                *)
(***************************************************************************)
\* the output fields CoreAuthenticatedMutation declares
BaseFields == {"success", "message", "error_details", "data", "errors"}

\* request contexts: without a user attribute, with an anonymous user, with
\* an authenticated user
Contexts == {"no_user", "anonymous", "authenticated"}

\* get_authenticated_user: the user, or None
get_authenticated_user(context) ==
    IF context = "authenticated" THEN PyStr("user") ELSE None

\* cls(**result): graphene gives an ObjectType the __init__ of a dataclass
\* over its declared fields, each defaulting to None; a keyword that is not
\* a declared field is a TypeError
Construct(fields, result) ==
    IF DOMAIN result \subseteq fields
    THEN [t |-> "object",
          v |-> [f \in fields |->
                   IF f \in DOMAIN result THEN result[f] ELSE None]]
    ELSE Raised

\* what perform_mutation returns: "envelope" a lemmo_message dictionary,
\* "fields" a dictionary of declared fields only, "raises" an exception
perform_mutation(performed, data) ==
    CASE performed = "envelope" ->
           success_message("User created successfully", data)
      [] performed = "fields" ->
           [success |-> TRUE, message |-> "User created successfully",
            data |-> data]
      [] OTHER -> Raised

\* the except branch of mutate
mutate_except(fields, data) ==
    Construct(fields,
              lemmo_message(FALSE,
                            "An error occurred during mutation execution",
                            PyList(<<PyStr("Traceback")>>), data, None,
                            NoType))

\* CoreAuthenticatedMutation.mutate: the methods called, in order, and the
\* object returned (Raised when an exception leaves mutate)
mutate(fields, context, permitted, performed, data) ==
    LET user == get_authenticated_user(context)
        checked == <<"get_authenticated_user", "check_permissions">>
        refused ==
            Construct(fields,
                      lemmo_message(FALSE, "Insufficient permissions",
                                    PyList(<<PyStr("User does not have required permissions")>>),
                                    data, None, NoType))
        result == perform_mutation(performed, data)
        built == IF result = Raised THEN Raised ELSE Construct(fields, result)
    IN CASE ~Truthy(user) ->
              [calls |-> <<"get_authenticated_user">>,
               ret |-> Construct(fields,
                                 lemmo_message(FALSE,
                                               "Authentication required",
                                               PyList(<<PyStr("User not authenticated")>>),
                                               None, None, NoType))]
         [] permitted = "raises" ->
              [calls |-> checked, ret |-> mutate_except(fields, data)]
         [] permitted = "false" ->
              [calls |-> checked,
               ret |-> IF refused = Raised
                       THEN mutate_except(fields, data) ELSE refused]
         [] OTHER ->
              [calls |-> Append(checked, "perform_mutation"),
               ret |-> IF built = Raised
                       THEN mutate_except(fields, data) ELSE built]

\* CoreAuthenticatedQuery.resolve_with_auth: the methods called, in order,
\* and the value returned; nothing is caught
resolve_with_auth(context, permitted, resolved) ==
    LET user == get_authenticated_user(context)
        checked == <<"get_authenticated_user", "check_permissions">>
    IN CASE ~Truthy(user) ->
              [calls |-> <<"get_authenticated_user">>, ret |-> None]
         [] permitted = "raises" -> [calls |-> checked, ret |-> Raised]
         [] permitted = "false" -> [calls |-> checked, ret |-> None]
         [] OTHER ->
              [calls |-> Append(checked, "perform_resolve"),
               ret |-> resolved]

(***************************************************************************)
(* core/models/abstract_models.py.  A record is a row in storage and the   *)
(* model instance in memory that the methods are called on; a            *)
(* DateTimeField holds Time(n) or None.                                    *)
(***************************************************************************)
Time(n) == [t |-> "time", v |-> n]

\* StatusModel.STATUS_CHOICES, the stored values
STATUS_CHOICES == {"active", "inactive", "pending", "suspended"}

\* a new SoftDeleteModel instance saved at time now: auto_now_add and
\* auto_now set the timestamps, the other fields take their defaults
SoftDeleteModel(id, now) ==
    LET fields == [id |-> id, created_at |-> Time(now),
                   updated_at |-> Time(now), is_deleted |-> FALSE,
                   deleted_at |-> None]
    IN [row |-> fields, obj |-> fields]

\* a new StatusModel instance saved at time now
StatusModel(id, now) ==
    LET fields == [id |-> id, created_at |-> Time(now),
                   updated_at |-> Time(now), status |-> "active"]
    IN [row |-> fields, obj |-> fields]

\* Model.save(update_fields=...): auto_now sets updated_at when it is among
\* the fields saved, and the named fields of the instance are written to
\* the row
save(rec, update_fields, now) ==
    LET obj == IF "updated_at" \in update_fields
               THEN [rec.obj EXCEPT !.updated_at = Time(now)]
               ELSE rec.obj
    IN [row |-> [f \in DOMAIN rec.row |->
                   IF f \in update_fields THEN obj[f] ELSE rec.row[f]],
        obj |-> obj]

soft_delete(rec, now) ==
    save([rec EXCEPT !.obj.is_deleted = TRUE, !.obj.deleted_at = Time(now)],
         {"is_deleted", "deleted_at"}, now)

\* restore that clears the flag and leaves the time of deletion
restore_flag_only(rec, now) ==
    save([rec EXCEPT !.obj.is_deleted = FALSE],
         {"is_deleted", "deleted_at"}, now)

restore(rec, now) ==
    save([rec EXCEPT !.obj.is_deleted = FALSE, !.obj.deleted_at = None],
         {"is_deleted", "deleted_at"}, now)

is_active(rec) == IF rec.obj.status = "active" THEN PyBool("true")
                  ELSE PyBool("false")

activate(rec, now) ==
    save([rec EXCEPT !.obj.status = "active"], {"status"}, now)

\* deactivate with a plain save(): every field but the key is written
deactivate_save_all(rec, now) ==
    save([rec EXCEPT !.obj.status = "inactive"],
         {"created_at", "updated_at", "status"}, now)

deactivate(rec, now) ==
    save([rec EXCEPT !.obj.status = "inactive"], {"status"}, now)

(***************************************************************************)
(* The config.yml files written by hand                                    *)
(***************************************************************************)
QuotedStr(s) == Scalar(s, TRUE)
Plain(s) == Scalar(s, FALSE)

AppNode(name, module, url_prefix) ==
    MapNode(<< <<"name", name>>,
               <<"description", Plain("Test Description")>>,
               <<"module", module>>,
               <<"url_prefix", url_prefix>> >>)

\* <<module, url_prefix>> of the well-formed app entries
WellFormed ==
    { <<"lemmo_apps.authentication", "authentications">>,
      <<"lemmo_apps.inventory", "inventory">>,
      <<"lemmo_apps.order", "orders">>,
      <<"lemmo_apps.fhir_api", "fhir">> }

AppNodes ==
    { AppNode(Plain("Test App"), Plain(e[1]), Plain(e[2])) : e \in WellFormed }
    \cup
    { \* no description
      MapNode(<< <<"name", Plain("Test App")>>,
                 <<"module", Plain("lemmo_apps.dashboard")>>,
                 <<"url_prefix", Plain("dashboards")>> >>),
      \* module: ''
      AppNode(Plain("Test App"), QuotedStr(""), Plain("empty")),
      \* module: 123
      AppNode(Plain("Test App"), Plain("123"), Plain("numbers")),
      \* no module
      MapNode(<< <<"name", Plain("Test App")>>,
                 <<"url_prefix", Plain("test")>> >>),
      \* an entry that is a string
      Plain("lemmo_apps.authentication") }

AppsDoc(entries) == MapNode(<< <<"apps", SeqNode(entries)>> >>)

BaseDocs ==
    { Garbage, EmptyDoc, Plain("apps"), SeqNode(<<>>),
      MapNode(<< <<"name", Plain("Test App")>> >>),
      MapNode(<< <<"apps", Plain("none")>> >>),
      MapNode(<< <<"apps", Plain("null")>> >>),
      AppsDoc(<<>>) }

(***************************************************************************)
(* State                                                                   *)
(***************************************************************************)
\* file: content of config.yml, or Absent
\* writable: whether config.yml can be created and written
\* last: the last call, [op, arg, ret]
\* schema: the module-level schema of core.schema, NotImported before the
\*   module is imported
\* history: what happened to schema: the schema the most recent
\*   reload_schema returned (NoCall before the first) and the classes that
\*   were collected for the schema now in place
\* records: the model records in storage and in memory
\* clock: what timezone.now() returns
VARIABLES file, writable, last, schema, history, records, clock

vars == <<file, writable, last, schema, history, records, clock>>

NotImported == [t |-> "unset", v |-> <<>>]
NoCall == [t |-> "nocall", v |-> <<>>]
NoHistory ==
    [reloaded |-> NoCall, queries |-> <<>>, mutations |-> <<>>]
NoRecords == <<>>

Call(op, arg, ret) == [op |-> op, arg |-> arg, ret |-> ret]

Init ==
    /\ file = Absent
    /\ writable = TRUE
    /\ last = Call("init", <<>>, None)
    /\ schema = NotImported
    /\ history = NoHistory
    /\ records = NoRecords
    /\ clock = 0

\* ---- the environment: edits of config.yml and of its permissions ----
WriteFile(doc) ==
    /\ writable
    /\ file' = doc
    /\ last' = Call("write_file", <<>>, None)
    /\ UNCHANGED <<writable, schema, history, records, clock>>

AppendApp(node) ==
    /\ writable
    /\ file.t = "map"
    /\ Len(file.v) = 1
    /\ file.v[1][1] = "apps"
    /\ file.v[1][2].t = "seq"
    /\ Len(file.v[1][2].v) < MaxApps
    /\ file' = AppsDoc(Append(file.v[1][2].v, node))
    /\ last' = Call("append_app", <<>>, None)
    /\ UNCHANGED <<writable, schema, history, records, clock>>

DeleteFile ==
    /\ writable
    /\ file # Absent
    /\ file' = Absent
    /\ last' = Call("delete_file", <<>>, None)
    /\ UNCHANGED <<writable, schema, history, records, clock>>

Chmod ==
    /\ writable' = ~writable
    /\ last' = Call("chmod", <<>>, None)
    /\ UNCHANGED <<file, schema, history, records, clock>>

\* ---- the program ----
GenerateConfig(overwrite) ==
    LET r == generate_config(file, writable, overwrite)
    IN /\ file' = r.file
       /\ last' = Call("generate_config", <<overwrite>>, r.ret)
       /\ UNCHANGED <<writable, schema, history, records, clock>>

GetConfigData ==
    LET r == get_config_data_from_config_file(file, writable)
    IN /\ file' = r.file
       /\ last' = Call("get_config_data_from_config_file", <<>>, r.ret)
       /\ UNCHANGED <<writable, schema, history, records, clock>>

\* validate_config_data applied to what config.yml holds
ValidateConfigData ==
    /\ file \notin {Absent, Garbage}
    /\ last' = Call("validate_config_data", <<safe_load(file)>>,
                    validate_config_data(safe_load(file)))
    /\ UNCHANGED <<file, writable, schema, history, records, clock>>

GetApps ==
    LET r == get_apps(file, writable)
    IN /\ file' = r.file
       /\ last' = Call("get_apps", <<>>, r.ret)
       /\ UNCHANGED <<writable, schema, history, records, clock>>

GetAppSchema ==
    LET r == get_app_schema(file, writable)
    IN /\ file' = r.file
       /\ last' = Call("get_app_schema", <<>>, r.ret)
       /\ UNCHANGED <<writable, schema, history, records, clock>>

GetAppUrls ==
    LET r == get_app_urls(file, writable)
    IN /\ file' = r.file
       /\ last' = Call("get_app_urls", <<>>, r.ret)
       /\ UNCHANGED <<writable, schema, history, records, clock>>

CreateSchema ==
    LET r == create_schema(file, writable)
    IN /\ file' = r.file
       /\ last' = Call("create_schema", <<>>, r.ret)
       /\ UNCHANGED <<writable, schema, history, records, clock>>

GetAppInfo ==
    LET r == get_app_info(file, writable)
    IN /\ file' = r.file
       /\ last' = Call("get_app_info", <<>>, r.ret)
       /\ UNCHANGED <<writable, schema, history, records, clock>>

Next ==
    \/ \E doc \in BaseDocs : WriteFile(doc)
    \/ \E node \in AppNodes : AppendApp(node)
    \/ DeleteFile
    \/ Chmod
    \/ \E overwrite \in BOOLEAN : GenerateConfig(overwrite)
    \/ GetConfigData
    \/ ValidateConfigData
    \/ GetApps
    \/ GetAppSchema
    \/ GetAppUrls
    \/ CreateSchema
    \/ GetAppInfo

Spec == Init /\ [][Next]_vars

(***************************************************************************)
(* The module-level schema of core.schema.  The module is imported in a    *)
(* project without config.yml, which builds the first schema; then the     *)
(* configuration is edited and the schema functions are called.            *)
(***************************************************************************)
\* the app entries written to config.yml in this specification
SchemaNodes ==
    { AppNode(Plain("Test App"), Plain(e[1]), Plain(e[2])) :
        e \in { <<"lemmo_apps.authentication", "authentications">>,
                <<"lemmo_apps.order", "orders">>,
                <<"lemmo_apps.fhir_api", "fhir">> } }

\* core/schema.py line 150: schema = create_schema()
InitSchema ==
    LET c == create_schema(Absent, TRUE)
        s == get_app_schema(Absent, TRUE)
    IN /\ file = c.file
       /\ writable = TRUE
       /\ last = Call("import", <<>>, None)
       /\ schema = c.ret
       /\ history = [reloaded |-> NoCall, queries |-> s.ret.queries,
                     mutations |-> s.ret.mutations]
       /\ records = NoRecords
       /\ clock = 0

ReloadSchema ==
    \E r \in {reload_schema(schema, file, writable)},
       s \in {get_app_schema(file, writable)} :
       /\ file' = r.file
       /\ schema' = r.schema
       /\ last' = Call("reload_schema", <<>>, r.ret)
       /\ history' = [reloaded |-> r.ret,
                      queries |-> IF r.rebuilt THEN s.ret.queries
                                  ELSE history.queries,
                      mutations |-> IF r.rebuilt THEN s.ret.mutations
                                    ELSE history.mutations]
       /\ UNCHANGED <<writable, records, clock>>

GetSchemaInfo ==
    \E r \in {get_schema_info(file, writable)} :
       /\ file' = r.file
       /\ last' = Call("get_schema_info", <<>>, r.ret)
       /\ UNCHANGED <<writable, schema, history, records, clock>>

NextSchema ==
    \/ \E doc \in {Garbage, AppsDoc(<<>>)} : WriteFile(doc)
    \/ \E node \in SchemaNodes : AppendApp(node)
    \/ DeleteFile
    \/ CreateSchema
    \/ ReloadSchema
    \/ GetSchemaInfo

SpecSchema == InitSchema /\ [][NextSchema]_vars

(***************************************************************************)
(* The envelope constructors of core.app_utils applied to arguments; an    *)
(* argument that is None is one the caller left out.                       *)
(***************************************************************************)
Messages == {"Test message", ""}

\* JSON payloads: absent, dictionaries, lists, numbers, strings, booleans
Payloads ==
    { None,
      PyDict(<<>>), PyDict(<< <<"test", PyStr("data")>> >>),
      PyList(<<>>), PyList(<<PyInt("1")>>),
      PyInt("0"), PyStr(""), PyBool("false") }

ErrorLists ==
    { None, PyList(<<>>), PyList(<<PyStr("Error 1"), PyStr("Error 2")>>) }

MessageTypes == {"success", "error", "warning", "info"}

InitEnvelope ==
    /\ file = Absent
    /\ writable = TRUE
    /\ last = Call("init", <<>>, None)
    /\ schema = NotImported
    /\ history = NoHistory
    /\ records = NoRecords
    /\ clock = 0

LemmoMessage(success, message, error_details, data, errors, message_type) ==
    /\ last' = Call("lemmo_message",
                    [success |-> success, message |-> message,
                     error_details |-> error_details, data |-> data,
                     errors |-> errors, message_type |-> message_type],
                    lemmo_message(success, message, error_details, data,
                                  errors, message_type))
    /\ UNCHANGED <<file, writable, schema, history, records, clock>>

SuccessMessage(message, data) ==
    /\ last' = Call("success_message",
                    [message |-> message, data |-> data],
                    success_message(message, data))
    /\ UNCHANGED <<file, writable, schema, history, records, clock>>

ErrorMessage(message, error_details, errors) ==
    /\ last' = Call("error_message",
                    [message |-> message, error_details |-> error_details,
                     errors |-> errors],
                    error_message(message, error_details, errors))
    /\ UNCHANGED <<file, writable, schema, history, records, clock>>

WarningMessage(message, data) ==
    /\ last' = Call("warning_message",
                    [message |-> message, data |-> data],
                    warning_message(message, data))
    /\ UNCHANGED <<file, writable, schema, history, records, clock>>

InfoMessage(message, data) ==
    /\ last' = Call("info_message",
                    [message |-> message, data |-> data],
                    info_message(message, data))
    /\ UNCHANGED <<file, writable, schema, history, records, clock>>

NextEnvelope ==
    \/ \E success \in BOOLEAN, message \in Messages,
          error_details \in ErrorLists, data \in Payloads,
          errors \in ErrorLists, message_type \in MessageTypes \cup {NoType} :
          LemmoMessage(success, message, error_details, data, errors,
                       message_type)
    \/ \E message \in Messages, data \in Payloads :
          SuccessMessage(message, data)
    \/ \E message \in Messages, error_details \in ErrorLists,
          errors \in ErrorLists : ErrorMessage(message, error_details, errors)
    \/ \E message \in Messages, data \in Payloads :
          WarningMessage(message, data)
    \/ \E message \in Messages, data \in Payloads : InfoMessage(message, data)

SpecEnvelope == InitEnvelope /\ [][NextEnvelope]_vars

(***************************************************************************)
(* Requests to an authenticated mutation and an authenticated query.       *)
(***************************************************************************)
\* the declared output fields of a concrete mutation: the inherited ones,
\* or those and a message_type field of its own
FieldSets == {BaseFields, BaseFields \cup {"message_type"}}

\* what the subclass's check_permissions does
Permissions == {"true", "false", "raises"}

\* what the subclass's perform_mutation does
Performs == {"envelope", "fields", "raises"}

\* the mutation arguments
Arguments ==
    { PyDict(<<>>), PyDict(<< <<"name", PyStr("Test")>> >>) }

\* what the subclass's perform_resolve gives
Resolves == {None, PyStr("result"), Raised}

Mutate(fields, context, permitted, performed, data) ==
    LET r == mutate(fields, context, permitted, performed, data)
    IN /\ last' = Call("mutate",
                       [fields |-> fields, context |-> context,
                        permitted |-> permitted, performed |-> performed,
                        data |-> data],
                       r)
       /\ UNCHANGED <<file, writable, schema, history, records, clock>>

ResolveWithAuth(context, permitted, resolved) ==
    LET r == resolve_with_auth(context, permitted, resolved)
    IN /\ last' = Call("resolve_with_auth",
                       [context |-> context, permitted |-> permitted,
                        resolved |-> resolved],
                       r)
       /\ UNCHANGED <<file, writable, schema, history, records, clock>>

NextAuth ==
    \/ \E fields \in FieldSets, context \in Contexts,
          permitted \in Permissions, performed \in Performs,
          data \in Arguments :
          Mutate(fields, context, permitted, performed, data)
    \/ \E context \in Contexts, permitted \in Permissions,
          resolved \in Resolves :
          ResolveWithAuth(context, permitted, resolved)

SpecAuth == InitEnvelope /\ [][NextAuth]_vars

(***************************************************************************)
(* One record of a concrete SoftDeleteModel and one of a concrete          *)
(* StatusModel, while time passes and other writers save the rows.         *)
(***************************************************************************)
\* the last time timezone.now() gives
MaxClock == 3

\* the keys of the two records
SoftId == 1
StatusId == 2

InitModels ==
    /\ file = Absent
    /\ writable = TRUE
    /\ last = Call("init", <<>>, None)
    /\ schema = NotImported
    /\ history = NoHistory
    /\ records = NoRecords
    /\ clock = 0

Tick ==
    /\ clock < MaxClock
    /\ clock' = clock + 1
    /\ UNCHANGED <<file, writable, last, schema, history, records>>

\* objects.create() of the SoftDeleteModel record
CreateSoftDelete ==
    /\ SoftId \notin DOMAIN records
    /\ records' = (SoftId :> SoftDeleteModel(SoftId, clock)) @@ records
    /\ last' = Call("create", SoftId, None)
    /\ UNCHANGED <<file, writable, schema, history, clock>>

\* objects.create() of the StatusModel record
CreateStatus ==
    /\ StatusId \notin DOMAIN records
    /\ records' = (StatusId :> StatusModel(StatusId, clock)) @@ records
    /\ last' = Call("create", StatusId, None)
    /\ UNCHANGED <<file, writable, schema, history, clock>>

\* another writer loads the row and saves it: auto_now moves updated_at in
\* storage, the instance in memory here is not refreshed
Touch(id) ==
    /\ id \in DOMAIN records
    /\ records[id].row.updated_at # Time(clock)
    /\ records' = [records EXCEPT ![id].row.updated_at = Time(clock)]
    /\ last' = Call("touch", id, None)
    /\ UNCHANGED <<file, writable, schema, history, clock>>

SoftDelete ==
    /\ SoftId \in DOMAIN records
    /\ records' = [records EXCEPT
                     ![SoftId] = soft_delete(records[SoftId], clock)]
    /\ last' = Call("soft_delete", SoftId, None)
    /\ UNCHANGED <<file, writable, schema, history, clock>>

Restore ==
    /\ SoftId \in DOMAIN records
    /\ records' = [records EXCEPT
                     ![SoftId] = restore(records[SoftId], clock)]
    /\ last' = Call("restore", SoftId, None)
    /\ UNCHANGED <<file, writable, schema, history, clock>>

Activate ==
    /\ StatusId \in DOMAIN records
    /\ records' = [records EXCEPT
                     ![StatusId] = activate(records[StatusId], clock)]
    /\ last' = Call("activate", StatusId, None)
    /\ UNCHANGED <<file, writable, schema, history, clock>>

Deactivate ==
    /\ StatusId \in DOMAIN records
    /\ records' = [records EXCEPT
                     ![StatusId] = deactivate(records[StatusId], clock)]
    /\ last' = Call("deactivate", StatusId, None)
    /\ UNCHANGED <<file, writable, schema, history, clock>>

IsActive ==
    /\ StatusId \in DOMAIN records
    /\ last' = Call("is_active", StatusId, is_active(records[StatusId]))
    /\ UNCHANGED <<file, writable, schema, history, records, clock>>

NextModels ==
    \/ Tick
    \/ CreateSoftDelete
    \/ CreateStatus
    \/ \E id \in {SoftId, StatusId} : Touch(id)
    \/ SoftDelete
    \/ Restore
    \/ Activate
    \/ Deactivate
    \/ IsActive

SpecModels == InitModels /\ [][NextModels]_vars

(***************************************************************************)
(* validate_required_fields applied to a dictionary and a list of names.   *)
(***************************************************************************)
\* the longest list of required fields
MaxFields == 3

FieldNames3 == <<"field1", "field2", "field3">>

\* what a field of data is: left out, None, or a value (a falsy one too)
FieldValues == {"absent", "none", "value1", "zero"}

\* the dictionary with the fields chosen by choice, in the order of
\* FieldNames3
RECURSIVE DataOf(_, _)
DataOf(choice, i) ==
    IF i > Len(FieldNames3)
    THEN <<>>
    ELSE (CASE choice[i] = "absent" -> <<>>
            [] choice[i] = "none" -> << <<FieldNames3[i], None>> >>
            [] choice[i] = "zero" -> << <<FieldNames3[i], PyInt("0")>> >>
            [] OTHER -> << <<FieldNames3[i], PyStr("value1")>> >>)
         \o DataOf(choice, i + 1)

DataDicts ==
    { PyDict(DataOf(choice, 1)) :
        choice \in [1..Len(FieldNames3) -> FieldValues] }

RequiredLists ==
    UNION { [1..n -> {FieldNames3[i] : i \in 1..Len(FieldNames3)}] : n \in 0..MaxFields }

InitFields ==
    /\ file = Absent
    /\ writable = TRUE
    /\ \E data \in DataDicts, required \in RequiredLists :
         last = Call("call",
                     [data |-> data, required_fields |-> required],
                     None)
    /\ schema = NotImported
    /\ history = NoHistory
    /\ records = NoRecords
    /\ clock = 0

ValidateRequiredFields ==
    /\ last.op = "call"
    /\ last' = Call("validate_required_fields", last.arg,
                    validate_required_fields(last.arg.data,
                                             last.arg.required_fields))
    /\ UNCHANGED <<file, writable, schema, history, records, clock>>

NextFields == ValidateRequiredFields

SpecFields == InitFields /\ [][NextFields]_vars

(***************************************************************************)
(* get_pagination_params applied to query arguments.                       *)
(***************************************************************************)
\* pages from -MaxPage to MaxPage, page sizes from -1 to MaxPageSize
MaxPage == 3
MaxPageSize == 102

\* the query arguments: page and page_size, each given or left out
PageKwargs ==
    UNION { { k \in [keys -> -MaxPage..MaxPageSize] :
                /\ "page" \in keys => k["page"] \in -MaxPage..MaxPage
                /\ "page_size" \in keys =>
                       k["page_size"] \in -1..MaxPageSize } :
            keys \in SUBSET {"page", "page_size"} }

InitPage ==
    /\ file = Absent
    /\ writable = TRUE
    /\ \E kwargs \in PageKwargs : last = Call("call", kwargs, None)
    /\ schema = NotImported
    /\ history = NoHistory
    /\ records = NoRecords
    /\ clock = 0

GetPaginationParams ==
    /\ last.op = "call"
    /\ last' = Call("get_pagination_params", last.arg,
                    get_pagination_params(last.arg))
    /\ UNCHANGED <<file, writable, schema, history, records, clock>>

NextPage == GetPaginationParams

SpecPage == InitPage /\ [][NextPage]_vars

(***************************************************************************)
(* A paginated query: the parameters are taken from the query arguments    *)
(* and the response is built for a page of items out of total_count.       *)
(***************************************************************************)
\* the largest total_count
MaxCount == 100

\* the items of a page
ItemLists ==
    { PyList(<<>>),
      PyList(<< PyDict(<< <<"id", PyInt("1")>> >>),
                PyDict(<< <<"id", PyInt("2")>> >>) >>) }

CreatePaginatedResponse(items, total_count) ==
    /\ last.op = "get_pagination_params"
    /\ last' = Call("create_paginated_response",
                    [items |-> items, total_count |-> total_count,
                     page |-> last.ret.page,
                     page_size |-> last.ret.page_size],
                    create_paginated_response(items, total_count,
                                              last.ret.page,
                                              last.ret.page_size))
    /\ UNCHANGED <<file, writable, schema, history, records, clock>>

NextResponse ==
    \/ GetPaginationParams
    \/ \E items \in ItemLists, total_count \in 0..MaxCount :
          CreatePaginatedResponse(items, total_count)

SpecResponse == InitPage /\ [][NextResponse]_vars


(***************************************************************************)
(* Properties                                                              *)
(***************************************************************************)
\* the configuration the loader works on in the current state: what
\* get_config_data_from_config_file returns
LoadedConfig == get_config_data_from_config_file(file, writable).ret

\* the 'apps' list of the loaded configuration (empty when there is none)
LoadedApps ==
    IF IsDict(LoadedConfig) /\ HasKey(LoadedConfig, "apps")
    THEN DictItem(LoadedConfig, "apps").v
    ELSE <<>>

\* the app has a non-empty 'module' that imports without raising
Importable(app) ==
    /\ IsDict(app)
    /\ HasKey(app, "module")
    /\ IsStr(DictItem(app, "module"))
    /\ DictItem(app, "module").v # ""
    /\ import_module(DictItem(app, "module").v, "") = "ok"

ImportableApps == SelectSeq(LoadedApps, Importable)

\* C1: get_apps returns, in configuration order, exactly the 'module'
\* values of the configured apps whose module imports without raising; an
\* app whose import raises or whose module is missing or empty is skipped
\* without stopping the apps after it; with a configuration that is not a
\* dictionary the result is the empty list.
C1_GetAppsLoadsImportable ==
    last.op = "get_apps" =>
        IF ~IsDict(LoadedConfig)
        THEN last.ret = PyList(<<>>)
        ELSE last.ret = PyList([i \in 1..Len(ImportableApps) |->
                                  DictItem(ImportableApps[i], "module")])

\* C1 witness: get_apps skipped an app that does not import and loaded
\* the app configured after it
C1_Witness ==
    /\ last.op = "get_apps"
    /\ Len(LoadedApps) = 2
    /\ ~Importable(LoadedApps[1])
    /\ Importable(LoadedApps[2])
    /\ last.ret = PyList(<<DictItem(LoadedApps[2], "module")>>)

\* the modules of the loaded configuration
ConfiguredModules ==
    { DictItem(LoadedApps[i], "module").v : i \in 1..Len(LoadedApps) }

HasDictField(class) ==
    \E i \in 1..Len(class.fields) : class.fields[i][2] = "dict"

\* the class is in the list of collected classes
Collected(class, classes) == \E i \in 1..Len(classes) : classes[i] = class

\* C2 (as stated): a module whose schema fails to import, or one of whose
\* Query and Mutation classes has a dict field, contributes neither its
\* Query nor its Mutation class.
C2_WholeModuleSkipped ==
    last.op = "get_app_schema" =>
        \A m \in ConfiguredModules \cap DOMAIN Installed :
            LET sm == Installed[m].schema
            IN (\/ import_module(m, "schema") # "ok"
                \/ HasDictField(sm.Query)
                \/ HasDictField(sm.Mutation))
               => /\ ~Collected(sm.Query, last.ret.queries)
                  /\ ~Collected(sm.Mutation, last.ret.mutations)

\* C2 (amended): a module whose schema fails to import contributes neither
\* class; a Query or Mutation class with a dict field is itself left out,
\* and the other class of the module is judged on its own.
C2_DictClassSkipped ==
    last.op = "get_app_schema" =>
        \A m \in ConfiguredModules \cap DOMAIN Installed :
            LET sm == Installed[m].schema
            IN /\ import_module(m, "schema") # "ok"
                  => \A i \in 1..Len(last.ret.queries) :
                        last.ret.queries[i].module # m
               /\ import_module(m, "schema") # "ok"
                  => \A i \in 1..Len(last.ret.mutations) :
                        last.ret.mutations[i].module # m
               /\ HasDictField(sm.Query)
                  => ~Collected(sm.Query, last.ret.queries)
               /\ HasDictField(sm.Mutation)
                  => ~Collected(sm.Mutation, last.ret.mutations)

\* C2 witness: a module whose Query has a dict field was configured, its
\* Query was left out and its Mutation collected
C2_Witness ==
    /\ last.op = "get_app_schema"
    /\ \E m \in ConfiguredModules \cap DOMAIN Installed :
          /\ import_module(m, "schema") = "ok"
          /\ HasDictField(Installed[m].schema.Query)
          /\ ~Collected(Installed[m].schema.Query, last.ret.queries)
          /\ Collected(Installed[m].schema.Mutation, last.ret.mutations)

\* the app has a urls submodule that imports and defines urlpatterns
HasUrls(app) ==
    /\ import_module(DictItem(app, "module").v, "urls") = "ok"
    /\ Installed[DictItem(app, "module").v].urls.urlpatterns

AppsWithUrls == SelectSeq(LoadedApps, HasUrls)

\* C3: get_app_urls returns, in configuration order, one route mounted
\* under '<url_prefix>/' for every configured app whose urls submodule
\* imports and defines urlpatterns, and nothing for the other apps.
C3_UrlsMounted ==
    last.op = "get_app_urls" =>
        last.ret = [i \in 1..Len(AppsWithUrls) |->
                      path(DictItem(AppsWithUrls[i], "url_prefix").v \o "/",
                           DictItem(AppsWithUrls[i], "module").v)]


\* the classes get_app_schema collects in the current state
CollectedClasses == get_app_schema(file, writable).ret

FieldNames(fields) == { fields[i][1] : i \in 1..Len(fields) }

\* every field of every class of the list is among the names
AllFieldsIn(classes, names) ==
    \A k \in 1..Len(classes) :
        \A i \in 1..Len(classes[k].fields) :
            classes[k].fields[i][1] \in names

\* field i of the class has a type, and no field before it raises
Mergeable(class, i) ==
    /\ HasType(class.fields[i][2])
    /\ \A j \in 1..(i - 1) : class.fields[j][2] # "raising"

\* every mergeable field of every class of the list is among the names
MergeableFieldsIn(classes, names) ==
    \A k \in 1..Len(classes) :
        \A i \in 1..Len(classes[k].fields) :
            Mergeable(classes[k], i) => classes[k].fields[i][1] \in names

C5_HelloAlways ==
    last.op = "create_schema" =>
        /\ "hello" \in FieldNames(last.ret.v.query)
        /\ CollectedClasses.queries = <<>>
           => /\ Len(last.ret.v.query) = 1
              /\ last.ret.v.query[1][1] = "hello"

\* C5 witness: a schema with app query fields beside hello
C5_Witness ==
    /\ last.op = "create_schema"
    /\ CollectedClasses.queries # <<>>
    /\ {"hello", "users"} \subseteq FieldNames(last.ret.v.query)

\* some class of the list has a field that makes graphene.Schema raise and
\* that create_schema merges
HasUnbuildable(classes) ==
    \E k \in 1..Len(classes) :
        \E i \in 1..Len(classes[k].fields) :
            /\ classes[k].fields[i][2] = "unbuildable"
            /\ Mergeable(classes[k], i)
            /\ \A j \in 1..(k - 1) :
                  classes[k].fields[i][1]
                     \notin FieldNames(classes[j].fields)

\* C6: create_schema never raises: it returns a schema with a query type
\* and a mutation type; a class whose processing raises does not stop the
\* classes after it from being merged; and when the composition as a whole
\* fails the minimal error schema is returned.
C6_CreateSchemaNeverRaises ==
    last.op = "create_schema" =>
        /\ last.ret.t = "schema"
        /\ DOMAIN last.ret.v = {"query", "mutation", "error"}
        /\ Len(last.ret.v.query) >= 1
        /\ ~last.ret.v.error
           => /\ MergeableFieldsIn(CollectedClasses.queries,
                                   FieldNames(last.ret.v.query))
              /\ MergeableFieldsIn(CollectedClasses.mutations,
                                   FieldNames(last.ret.v.mutation))
        /\ (\/ HasUnbuildable(CollectedClasses.queries)
            \/ HasUnbuildable(CollectedClasses.mutations))
           => last.ret = ErrorSchema

\* C6 witness: the first Mutation class raised in the middle of its
\* fields and the class after it was merged all the same
C6_Witness ==
    /\ last.op = "create_schema"
    /\ Len(CollectedClasses.mutations) = 2
    /\ \E i \in 1..Len(CollectedClasses.mutations[1].fields) :
          CollectedClasses.mutations[1].fields[i][2] = "raising"
    /\ FieldNames(last.ret.v.mutation) = {"cancel", "login"}

\* C6 second witness: the composition failed and the error schema came back
C6_ErrorWitness ==
    /\ last.op = "create_schema"
    /\ HasUnbuildable(CollectedClasses.queries)
    /\ last.ret = ErrorSchema


\* a dictionary with an 'apps' list whose entries are dictionaries with
\* string 'name', 'module' and 'url_prefix'
WellFormedConfig(c) ==
    /\ IsDict(c)
    /\ HasKey(c, "apps")
    /\ IsList(DictItem(c, "apps"))
    /\ \A i \in 1..Len(DictItem(c, "apps").v) :
          LET app == DictItem(c, "apps").v[i]
          IN /\ IsDict(app)
             /\ \A field \in {"name", "module", "url_prefix"} :
                   HasKey(app, field) /\ IsStr(DictItem(app, field))

\* C7: validate_config_data returns (True, []) exactly for a dictionary
\* with an 'apps' list of dictionaries that have string 'name', 'module'
\* and 'url_prefix'; for any other input it returns False with a non-empty
\* error list; the flag is True exactly when the list is empty;
\* 'description' is not required.
C7_ValidateConfigData ==
    last.op = "validate_config_data" =>
        LET c == last.arg[1]
            is_valid == last.ret[1]
            errors == last.ret[2]
        IN /\ (last.ret = <<TRUE, <<>> >>) <=> WellFormedConfig(c)
           /\ ~WellFormedConfig(c) => (~is_valid /\ Len(errors) > 0)
           /\ is_valid <=> (errors = <<>>)

\* C7 witness: a configuration with an app that has no description was
\* found valid
C7_Witness ==
    /\ last.op = "validate_config_data"
    /\ last.ret = <<TRUE, <<>> >>
    /\ \E i \in 1..Len(DictItem(last.arg[1], "apps").v) :
          ~HasKey(DictItem(last.arg[1], "apps").v[i], "description")

\* C7 second witness: a configuration with a malformed app was rejected
C7_InvalidWitness ==
    /\ last.op = "validate_config_data"
    /\ IsDict(last.arg[1])
    /\ HasKey(last.arg[1], "apps")
    /\ IsList(DictItem(last.arg[1], "apps"))
    /\ ~last.ret[1]
    /\ Len(last.ret[2]) >= 2

\* C8: get_config_data_from_config_file returns None when the file exists
\* and is not YAML or fails validate_config_data, and whatever it returns
\* other than None passes validate_config_data.
C8_NoneOnFailure ==
    last.op = "get_config_data_from_config_file" =>
        /\ file = Garbage => last.ret = None
        /\ (file \notin {Absent, Garbage}
            /\ ~WellFormedConfig(safe_load(file))) => last.ret = None
        /\ last.ret # None
           => validate_config_data(last.ret) = <<TRUE, <<>> >>

\* C8 witness: a file that parses but does not validate gave None
C8_Witness ==
    /\ last.op = "get_config_data_from_config_file"
    /\ file \notin {Absent, Garbage}
    /\ IsDict(safe_load(file))
    /\ ~WellFormedConfig(safe_load(file))
    /\ last.ret = None

\* C8 second witness: a hand-written file that validates was returned
C8_ValidWitness ==
    /\ last.op = "get_config_data_from_config_file"
    /\ file # safe_dump(LEMMO_DEFAULT_CONFIG_DATA)
    /\ last.ret # None
    /\ Len(DictItem(last.ret, "apps").v) = 2

\* C9: generate_config(overwrite=False) on an existing file returns an
\* error envelope and leaves the file as it is; a generate_config step
\* changes an existing file only with overwrite=True.
C9_NoOverwriteByDefault ==
    [][(last'.op = "generate_config" /\ file # Absent)
        => /\ ~last'.arg[1]
              => (file' = file /\ last'.ret.success = FALSE
                  /\ last'.ret.message_type = "error")
           /\ file' # file => last'.arg[1]]_vars

\* C9 witness: generate_config(overwrite=False) was refused on a
\* hand-written file, which is still there
C9_Witness ==
    /\ last.op = "generate_config"
    /\ last.arg = <<FALSE>>
    /\ ~last.ret.success
    /\ file \notin {Absent, safe_dump(LEMMO_DEFAULT_CONFIG_DATA)}

\* Python ==: lists item by item, dicts key by key whatever the order
RECURSIVE PyEq(_, _)
PyEq(a, b) ==
    IF a.t # b.t THEN FALSE
    ELSE CASE a.t = "list" ->
                /\ Len(a.v) = Len(b.v)
                /\ \A i \in 1..Len(a.v) : PyEq(a.v[i], b.v[i])
           [] a.t = "dict" ->
                /\ Len(a.v) = Len(b.v)
                /\ \A i \in 1..Len(a.v) :
                      /\ HasKey(b, a.v[i][1])
                      /\ PyEq(a.v[i][2], DictItem(b, a.v[i][1]))
           [] OTHER -> a = b

\* C10: after generate_config succeeded the file exists,
\* get_config_data_from_config_file returns data equal to
\* LEMMO_DEFAULT_CONFIG_DATA (apps in the same order) that passes
\* validate_config_data, and generate_config(overwrite=True) once more
\* leaves the same file content.
C10_DefaultRoundTrip ==
    (last.op = "generate_config" /\ last.ret.success) =>
        /\ file # Absent
        /\ get_config_data_from_config_file(file, writable).file = file
        /\ PyEq(LoadedConfig, LEMMO_DEFAULT_CONFIG_DATA)
        /\ validate_config_data(LoadedConfig) = <<TRUE, <<>> >>
        /\ generate_config(file, writable, TRUE).file = file
        /\ generate_config(file, writable, TRUE).ret.success

\* C10 witness: generate_config(overwrite=True) succeeded
C10_Witness ==
    /\ last.op = "generate_config"
    /\ last.arg = <<TRUE>>
    /\ last.ret.success
    /\ file = safe_dump(LEMMO_DEFAULT_CONFIG_DATA)


\* the info entry the claim describes for an app
ExpectedInfo(app) ==
    LET m == DictItem(app, "module").v
    IN AppInfo(app,
               import_module(m, "") = "ok",
               /\ import_module(m, "schema") = "ok"
               /\ \/ Installed[m].schema.Query.defined
                  \/ Installed[m].schema.Mutation.defined,
               /\ import_module(m, "urls") = "ok"
               /\ Installed[m].urls.urlpatterns)

\* C13: get_app_info returns one info entry per configured app, in
\* configuration order, whether or not the module imports: the entry has
\* the app's name, description, module and url_prefix, is_loaded exactly
\* when the module imports, has_schema exactly when the schema submodule
\* imports and defines Query or Mutation, has_urls exactly when the urls
\* submodule imports and defines urlpatterns; [] when there is no
\* configuration.
C13_OneInfoPerApp ==
    last.op = "get_app_info" =>
        IF ~IsDict(LoadedConfig)
        THEN last.ret = PyList(<<>>)
        ELSE last.ret = PyList([i \in 1..Len(LoadedApps) |->
                                  ExpectedInfo(LoadedApps[i])])

\* the number of classes merged into a composed schema: the collected
\* ones, or none when composition failed and the Hello-only schema was built
Merged(classes) == IF schema.v.error THEN 0 ELSE Len(classes)

\* C11: reload_schema rebuilds the schema from the configuration and the
\* installed modules as they are when it is called, stores the new schema
\* in the module-level variable, which then holds the schema the most
\* recent call returned, and returns it; if rebuilding raises, the
\* module-level schema stays and the previous schema is returned.
C11_ReloadStoresNewSchema ==
    /\ last.op = "reload_schema" =>
         /\ last.ret = schema
         /\ schema = create_schema(file, writable).ret
    /\ history.reloaded # NoCall => schema = history.reloaded
    /\ schema # NotImported =>
         reload_from(schema, Raised) = [schema |-> schema, ret |-> schema]

\* a reload after the configuration was edited by hand put a schema with
\* the authentication app's users field in place of the import-time one
C11_Witness ==
    /\ last.op = "reload_schema"
    /\ schema = history.reloaded
    /\ schema # create_schema(Absent, TRUE).ret
    /\ ~schema.v.error
    /\ HasField(schema.v.query, "users")

\* C12: get_schema_info reports the number of Query and Mutation classes
\* merged into the current schema.
C12_InfoCountsCurrentSchema ==
    last.op = "get_schema_info" =>
        /\ last.ret.query_count = Merged(history.queries)
        /\ last.ret.mutation_count = Merged(history.mutations)

EnvelopeOps ==
    {"lemmo_message", "success_message", "error_message", "warning_message",
     "info_message"}

\* the value of argument name of the last call, None when the function
\* does not take it
Passed(name) ==
    IF name \in DOMAIN last.arg THEN last.arg[name] ELSE None

\* C14: every envelope has exactly the keys success, message,
\* error_details, data, errors and message_type; error_details and errors
\* default to [] and data to {}; success_message, warning_message and
\* info_message give success True with their own message type,
\* error_message gives success False with 'error', and lemmo_message
\* without a message_type gives 'success' or 'error' after success.
C14_EnvelopeShape ==
    last.op \in EnvelopeOps =>
        /\ DOMAIN last.ret = {"success", "message", "error_details", "data",
                              "errors", "message_type"}
        /\ last.ret.message = last.arg.message
        /\ Passed("error_details") = None =>
               last.ret.error_details = PyList(<<>>)
        /\ Passed("errors") = None => last.ret.errors = PyList(<<>>)
        /\ Passed("data") = None => last.ret.data = PyDict(<<>>)
        /\ last.op = "success_message" =>
               last.ret.success /\ last.ret.message_type = "success"
        /\ last.op = "warning_message" =>
               last.ret.success /\ last.ret.message_type = "warning"
        /\ last.op = "info_message" =>
               last.ret.success /\ last.ret.message_type = "info"
        /\ last.op = "error_message" =>
               ~last.ret.success /\ last.ret.message_type = "error"
        /\ last.op = "lemmo_message" =>
               /\ last.ret.success = last.arg.success
               /\ last.ret.message_type =
                    IF last.arg.message_type # NoType
                    THEN last.arg.message_type
                    ELSE IF last.arg.success THEN "success" ELSE "error"

\* a warning was built without a payload
C14_Witness ==
    /\ last.op = "warning_message"
    /\ last.arg.data = None
    /\ last.ret.data = PyDict(<<>>)
    /\ last.ret.message_type = "warning"

\* lemmo_message was called without lists and without a message type
C14_DefaultTypeWitness ==
    /\ last.op = "lemmo_message"
    /\ last.arg.message_type = NoType
    /\ last.arg.error_details = None
    /\ ~last.arg.success
    /\ last.ret.message_type = "error"

\* C15: the data entry of the result equals the data value passed, for any
\* JSON value, and the error_details and errors entries equal the lists
\* passed.
C15_PayloadReturned ==
    last.op \in EnvelopeOps =>
        /\ Passed("data") # None => last.ret.data = last.arg.data
        /\ Passed("error_details") # None =>
               last.ret.error_details = last.arg.error_details
        /\ Passed("errors") # None => last.ret.errors = last.arg.errors

Range(seq) == {seq[i] : i \in 1..Len(seq)}

\* the last call was made with an authenticated user
Authenticated == last.arg.context = "authenticated"

\* the object returned is a failure envelope with this message
Failure(ret, message) ==
    /\ ret.t = "object"
    /\ ret.v.success = FALSE
    /\ ret.v.message = message

\* perform_mutation / perform_resolve is called only after
\* get_authenticated_user gave a user and then check_permissions gave True
AuthOrder ==
    /\ last.op = "mutate" =>
         /\ "perform_mutation" \in Range(last.ret.calls) =>
              /\ Authenticated
              /\ last.arg.permitted = "true"
              /\ last.ret.calls = <<"get_authenticated_user",
                                    "check_permissions", "perform_mutation">>
         /\ ~Authenticated => last.ret.calls = <<"get_authenticated_user">>
    /\ (/\ last.op = "resolve_with_auth"
        /\ (~Authenticated \/ last.arg.permitted = "false")) =>
             /\ "perform_resolve" \notin Range(last.ret.calls)
             /\ last.ret.ret = None

\* C16: mutate calls perform_mutation only after get_authenticated_user
\* returned a user and check_permissions returned True; without a user
\* neither is called and the result is a failure with message
\* 'Authentication required'; when the permission check fails
\* perform_mutation is not called and the message is 'Insufficient
\* permissions'; resolve_with_auth returns None without calling
\* perform_resolve for an unauthenticated or not permitted user.
C16_AuthGate ==
    /\ AuthOrder
    /\ last.op = "mutate" =>
         /\ ~Authenticated =>
              Failure(last.ret.ret, "Authentication required")
         /\ (Authenticated /\ last.arg.permitted = "false") =>
              /\ "perform_mutation" \notin Range(last.ret.calls)
              /\ Failure(last.ret.ret, "Insufficient permissions")

\* a step leaves every record in storage and changes no stored field
\* outside written, and no field at all of another record than id
WritesOnly(id, written) ==
    /\ DOMAIN records \subseteq DOMAIN records'
    /\ \A r \in DOMAIN records :
         /\ records'[r].row.id = records[r].row.id
         /\ \A f \in DOMAIN records[r].row :
              (r # id \/ f \notin written) =>
                  records'[r].row[f] = records[r].row[f]

SoftDeleteFlags ==
    SoftId \in DOMAIN records =>
        LET row == records[SoftId].row
        IN /\ row.id = SoftId
           /\ row.is_deleted <=> row.deleted_at # None
           /\ last.op = "soft_delete" =>
                row.is_deleted /\ row.deleted_at # None
           /\ last.op = "restore" =>
                /\ row.is_deleted = SoftDeleteModel(SoftId, 0).row.is_deleted
                /\ row.deleted_at = SoftDeleteModel(SoftId, 0).row.deleted_at
                /\ ~row.is_deleted
                /\ row.deleted_at = None

\* C17: after any sequence of soft_delete and restore calls the record
\* still exists in storage with the same id, is_deleted is True exactly
\* when deleted_at is non-null, the flags reflect the last call, restore
\* returns both fields to their initial values, and each call writes only
\* is_deleted and deleted_at.
C17_SoftDeleteMarks ==
    /\ []SoftDeleteFlags
    /\ [][/\ SoftId \in DOMAIN records => SoftId \in DOMAIN records'
          /\ last'.op \in {"soft_delete", "restore"} =>
               WritesOnly(SoftId, {"is_deleted", "deleted_at"})]_vars

\* the record was deleted at time 2 through an instance that had not seen
\* the row being saved by another writer at time 1
C17_Witness ==
    /\ SoftId \in DOMAIN records
    /\ last.op = "soft_delete"
    /\ records[SoftId].row.deleted_at = Time(2)
    /\ records[SoftId].row.updated_at = Time(1)
    /\ records[SoftId].obj.updated_at = Time(0)

StatusValues ==
    StatusId \in DOMAIN records =>
        LET rec == records[StatusId]
        IN /\ rec.row.status \in STATUS_CHOICES
           /\ rec.obj.status = rec.row.status
           /\ last.op = "activate" => rec.row.status = "active"
           /\ last.op = "deactivate" => rec.row.status = "inactive"
           /\ last.op = "is_active" =>
                (last.ret = PyBool("true") <=> rec.row.status = "active")
           /\ is_active(rec) \in {PyBool("true"), PyBool("false")}
           /\ \A now \in 0..MaxClock, later \in 0..MaxClock :
                /\ activate(activate(rec, now), later) = activate(rec, now)
                /\ deactivate(deactivate(rec, now), later) =
                     deactivate(rec, now)

\* C18: after any sequence of activate and deactivate calls from the
\* default, status is one of the four STATUS_CHOICES values, 'active'
\* after activate and 'inactive' after deactivate, is_active() is True
\* exactly when status is 'active', both operations are idempotent and
\* each call writes only the status field.
C18_StatusTransitions ==
    /\ []StatusValues
    /\ [][last'.op \in {"activate", "deactivate"} =>
               WritesOnly(StatusId, {"status"})]_vars

\* the record was deactivated through an instance that had not seen the
\* row being saved by another writer
C18_Witness ==
    /\ StatusId \in DOMAIN records
    /\ last.op = "deactivate"
    /\ records[StatusId].row.status = "inactive"
    /\ records[StatusId].row.updated_at # records[StatusId].obj.updated_at

\* C19: validate_required_fields returns exactly the entries of
\* required_fields that are absent from data or None in data, in the order
\* of required_fields; it returns [] exactly when every required field is
\* present with a non-None value; it does not modify data.
C19_MissingFields ==
    last.op = "validate_required_fields" =>
        LET data == last.arg.data
            required == last.arg.required_fields
            Missing(field) ==
                \/ \A j \in 1..Len(data.v) : data.v[j][1] # field
                \/ \E j \in 1..Len(data.v) :
                     data.v[j][1] = field /\ data.v[j][2] = None
        IN /\ last.ret.ret = SelectSeq(required, Missing)
           /\ last.ret.ret = <<>> <=>
                \A k \in 1..Len(required) :
                    ~Missing(required[k])
           /\ last.ret.data = data

\* field3 is left out, field2 is None and field1 is 0: the two missing
\* ones are returned in the order they were asked for, one of them twice
C19_Witness ==
    /\ last.op = "validate_required_fields"
    /\ last.arg.data =
         PyDict(<< <<"field1", PyInt("0")>>, <<"field2", None>> >>)
    /\ last.arg.required_fields = <<"field3", "field1", "field2">>
    /\ last.ret.ret = <<"field3", "field2">>

\* C20: for all integer page and page_size get_pagination_params returns
\* page >= 1, 1 <= page_size <= 100 and offset = (page - 1) * page_size
\* >= 0; in-range inputs are returned unchanged, page < 1 becomes 1,
\* page_size < 1 becomes 10, page_size > 100 becomes 100, and the defaults
\* are page 1 and page_size 10.
C20_PaginationParams ==
    last.op = "get_pagination_params" =>
        LET kwargs == last.arg
            given(key) == key \in DOMAIN kwargs
            ret == last.ret
        IN /\ DOMAIN ret = {"page", "page_size", "offset"}
           /\ ret.page >= 1
           /\ ret.page_size >= 1
           /\ ret.page_size <= 100
           /\ ret.offset = (ret.page - 1) * ret.page_size
           /\ ret.offset >= 0
           /\ ~given("page") => ret.page = 1
           /\ ~given("page_size") => ret.page_size = 10
           /\ given("page") =>
                ret.page = IF kwargs["page"] < 1 THEN 1 ELSE kwargs["page"]
           /\ given("page_size") =>
                ret.page_size =
                    CASE kwargs["page_size"] < 1 -> 10
                      [] kwargs["page_size"] > 100 -> 100
                      [] OTHER -> kwargs["page_size"]

\* page 0 with page size 101: page 1, page size 100, offset 0
C20_Witness ==
    /\ last.op = "get_pagination_params"
    /\ last.arg = [page |-> 0, page_size |-> 101]
    /\ last.ret = [page |-> 1, page_size |-> 100, offset |-> 0]

\* page 3 with page size 100 is returned as given, offset 200
C20_InRangeWitness ==
    /\ last.op = "get_pagination_params"
    /\ last.arg = [page |-> 3, page_size |-> 100]
    /\ last.ret = [page |-> 3, page_size |-> 100, offset |-> 200]

\* C21: for every total_count >= 0 and every page_size produced by
\* get_pagination_params, create_paginated_response returns total_pages
\* equal to the ceiling of total_count / page_size (the least n with
\* n * page_size >= total_count), has_next exactly when page < total_pages,
\* has_previous exactly when page > 1, and items, page, page_size and
\* total_count unchanged.
C21_PaginatedResponse ==
    last.op = "create_paginated_response" =>
        LET arg == last.arg
            pagination == last.ret.pagination
        IN /\ DOMAIN last.ret = {"items", "pagination"}
           /\ pagination.total_pages \in Nat
           /\ pagination.total_pages * arg.page_size >= arg.total_count
           /\ (pagination.total_pages - 1) * arg.page_size < arg.total_count
           /\ pagination.has_next <=> arg.page < pagination.total_pages
           /\ pagination.has_previous <=> arg.page > 1
           /\ last.ret.items = arg.items
           /\ pagination.page = arg.page
           /\ pagination.page_size = arg.page_size
           /\ pagination.total_count = arg.total_count

\* 41 items in pages of 20: three pages, and page 2 has a next and a
\* previous one
C21_Witness ==
    /\ last.op = "create_paginated_response"
    /\ last.arg.total_count = 41
    /\ last.arg.page = 2
    /\ last.arg.page_size = 20
    /\ last.ret.pagination.total_pages = 3
    /\ last.ret.pagination.has_next
    /\ last.ret.pagination.has_previous

\* no items at all: no pages, and page 1 has neither neighbour
C21_EmptyWitness ==
    /\ last.op = "create_paginated_response"
    /\ last.arg.total_count = 0
    /\ last.arg.page = 1
    /\ last.ret.pagination.total_pages = 0
    /\ ~last.ret.pagination.has_next
    /\ ~last.ret.pagination.has_previous

\* the Query or Mutation attribute of the schema module of a configured app
SchemaClass(app, kind) ==
    Installed[DictItem(app, "module").v].schema[kind]

\* <module>.schema imports, defines the class, the class has _meta.fields
\* and none of its field values is a dict
Qualifies(app, kind) ==
    /\ IsDict(app)
    /\ HasKey(app, "module")
    /\ IsStr(DictItem(app, "module"))
    /\ DictItem(app, "module").v # ""
    /\ import_module(DictItem(app, "module").v, "schema") = "ok"
    /\ SchemaClass(app, kind).defined
    /\ SchemaClass(app, kind).has_fields
    /\ ~HasDictField(SchemaClass(app, kind))

\* the classes of the qualifying apps, in configuration order
QualifyingClasses(kind) ==
    LET Test(app) == Qualifies(app, kind)
        apps == SelectSeq(LoadedApps, Test)
    IN [i \in 1..Len(apps) |-> SchemaClass(apps[i], kind)]

\* C22: get_app_schema validates Query and Mutation independently: the
\* queries list holds a module's Query exactly when <module>.schema
\* imports, defines Query, Query has _meta.fields and no field value is a
\* dict, and the same rule alone decides on its Mutation; both lists are in
\* configuration order and a failure in one app does not touch the classes
\* of another.
C22_ClassesJudgedAlone ==
    last.op = "get_app_schema" =>
        /\ last.ret.queries = QualifyingClasses("Query")
        /\ last.ret.mutations = QualifyingClasses("Mutation")

\* the first app's Query was refused while its Mutation was collected, and
\* both classes of the app configured after it were collected
C22_Witness ==
    /\ last.op = "get_app_schema"
    /\ Len(LoadedApps) = 2
    /\ ~Qualifies(LoadedApps[1], "Query")
    /\ Qualifies(LoadedApps[1], "Mutation")
    /\ Qualifies(LoadedApps[2], "Query")
    /\ Qualifies(LoadedApps[2], "Mutation")
    /\ last.ret.queries = <<SchemaClass(LoadedApps[2], "Query")>>
    /\ last.ret.mutations = <<SchemaClass(LoadedApps[1], "Mutation"),
                              SchemaClass(LoadedApps[2], "Mutation")>>

\* the first app's schema module does not import and the classes of the
\* second app were collected all the same
C22_FailureWitness ==
    /\ last.op = "get_app_schema"
    /\ Len(LoadedApps) = 2
    /\ import_module(DictItem(LoadedApps[1], "module").v, "schema") # "ok"
    /\ Qualifies(LoadedApps[2], "Query")
    /\ last.ret.queries = <<SchemaClass(LoadedApps[2], "Query")>>

\* what calling get_config_data_from_config_file now would give is what
\* the last call gave, and it would leave the file as it is
SameDataAgain ==
    last.op = "get_config_data_from_config_file" =>
        /\ get_config_data_from_config_file(file, writable).ret = last.ret
        /\ get_config_data_from_config_file(file, writable).file = file

\* C23: when the config file does not exist,
\* get_config_data_from_config_file creates it with the default
\* configuration and returns that configuration instead of None; when the
\* file cannot be created it returns None; a later call with nothing
\* written in between returns the same data.
C23_MissingFileCreated ==
    /\ []SameDataAgain
    /\ [][(file = Absent /\ last'.op = "get_config_data_from_config_file")
          => IF writable
             THEN /\ file' = safe_dump(LEMMO_DEFAULT_CONFIG_DATA)
                  /\ last'.ret # None
                  /\ PyEq(last'.ret, LEMMO_DEFAULT_CONFIG_DATA)
             ELSE /\ file' = Absent
                  /\ last'.ret = None]_vars

\* the call found no file, wrote the default one and returned its data
C23_Witness ==
    /\ last.op = "get_config_data_from_config_file"
    /\ file = safe_dump(LEMMO_DEFAULT_CONFIG_DATA)
    /\ writable
    /\ PyEq(last.ret, LEMMO_DEFAULT_CONFIG_DATA)

\* the call found no file and could not write one
C23_FailureWitness ==
    /\ last.op = "get_config_data_from_config_file"
    /\ file = Absent
    /\ ~writable
    /\ last.ret = None

====
